---- MODULE Spec2Model ----
(***************************************************************************)
(* AVTK (src/pyipa/avtk.py): the tkinter-style widget facade (AvWidget and *)
(* its subclasses, AvWindow's widget list) and the pipe relay between the  *)
(* host script and the spawned UI process; and the presentation driver     *)
(* built on it (src/pyipa/ipaui.py).                                       *)
(*                                                                         *)
(* Text is modelled as a sequence of tokens.  A token is a run of          *)
(* characters that holds neither the separator '|' nor white space, or it  *)
(* is the separator "|" itself, or the line terminator "\n".  No token is  *)
(* the concatenation of other tokens, so two texts are equal exactly when  *)
(* their token sequences are.  A Python dict is a function whose domain is *)
(* the set of its keys.                                                    *)
(***************************************************************************)
EXTENDS Integers, Sequences, FiniteSets, TLC

VARIABLES
  heap,            \* the widget objects, by handle (order of construction)
  widgets,         \* AvWindow.widgets: the handles added, in order
  rerenders,       \* the update_widget calls made on a parent, in order
  threads,         \* the callback threads started by handle_pipe_message
  out,             \* the last call and its result
  cfglog,          \* the construction-time mapping and the configure calls of a logged run
  steps,           \* the calls made in a bounded run
  running,         \* AvWindow.running
  process,         \* AvWindow.process and the child's state
  pcMain,          \* where the main thread is in mainloop
  pcReader,        \* where pipe_client_thread is
  attempts,        \* the passes of the connect loop so far (0 once it is left by connecting)
  pipe_handle,     \* self.pipe_handle: "unset" (no such attribute), "current" (opened to the pipe of
                   \* the child in self.process) or "previous" (opened to an earlier child's pipe)
  pipeIn,          \* the text written by the child and not yet read by the host
  pipeOut,         \* the text written by the host and not yet read by the child
  childCmds,       \* the commands the child's line reader has handed to HandleCommand
  clicks,          \* the widgets whose click line the child has written, in order
  sent,            \* the send_pipe_command calls that wrote to the pipe, in order
  ppt              \* the presentation application as src/pyipa/ipaui.py drives it

facadeVars == <<heap, widgets, rerenders, threads, out, cfglog, steps>>

hostVars == <<running, process, pcMain, pcReader, attempts, pipe_handle>>

pipeVars == <<pipeIn, pipeOut, childCmds, clicks, sent>>

vars == <<facadeVars, hostVars, pipeVars, ppt>>

(* ------------------------------ bounds -------------------------------- *)

MaxWidgets == 2

MaxAddr == 2

MaxList == 2

MaxThreads == 2

MaxCalls == 3

MaxClicks == 2

MaxSends == 1

MaxSteps == 4

(* A call of the script on the widget facade: counted, and the relay is    *)
(* left alone.                                                             *)
Tick == steps < MaxSteps /\ steps' = steps + 1 /\ UNCHANGED <<hostVars, pipeVars, ppt>>

(* ------------------------------ text ---------------------------------- *)

SEP == "|"

NL == "\n"

Whitespace == {NL, " "}

RECURSIVE lstrip(_)
lstrip(s) ==
  IF s # <<>> /\ Head(s) \in Whitespace THEN lstrip(Tail(s)) ELSE s

RECURSIVE rstrip(_)
rstrip(s) ==
  IF s # <<>> /\ s[Len(s)] \in Whitespace
    THEN rstrip(SubSeq(s, 1, Len(s) - 1))
    ELSE s

strip(s) == rstrip(lstrip(s))

(* str.split(sep): the fields between the separators, as a sequence of     *)
(* texts; a text without separator is one field, the empty text included.  *)
RECURSIVE split(_, _)
split(s, sep) ==
  IF \E i \in 1..Len(s) : s[i] = sep
    THEN LET i == CHOOSE j \in 1..Len(s) :
                    s[j] = sep /\ \A k \in 1..(j - 1) : s[k] # sep
         IN  <<SubSeq(s, 1, i - 1)>> \o split(SubSeq(s, i + 1, Len(s)), sep)
    ELSE <<s>>

(* The text of a Python str value that is one token. *)
Str(tok) == <<tok>>

(* ------------------------------ dicts --------------------------------- *)

EmptyDict == [k \in {} |-> 0]

(* dict.get(k, default) *)
get(d, k, default) == IF k \in DOMAIN d THEN d[k] ELSE default

(* dict.update(kw) *)
update(d, kw) ==
  [k \in (DOMAIN d) \cup (DOMAIN kw) |-> IF k \in DOMAIN kw THEN kw[k] ELSE d[k]]

(* ------------------------------ widgets ------------------------------- *)

None == [kind |-> "None", ref |-> 0]

TheWindow == [kind |-> "AvWindow", ref |-> 0]

FrameRef(f) == [kind |-> "AvFrame", ref |-> f]

(* A mutation: the identifier is the widget type alone. *)
WidgetId_type_only(widget_type, addr) == widget_type

(* f"{widget_type}_{id(self)}" *)
WidgetId(widget_type, addr) == widget_type \o "_" \o ToString(addr)

(* AvWidget.__init__(widget_type, **kwargs), for the object at address addr *)
AvWidget(widget_type, addr, kwargs) ==
  [ widget_type |-> widget_type,
    id          |-> WidgetId(widget_type, addr),
    addr        |-> addr,
    parent      |-> None,
    children    |-> <<>>,
    properties  |-> kwargs,
    command     |-> "None",
    bindings    |-> EmptyDict,
    freed       |-> FALSE ]

AvButton(addr, text, command, kwargs) ==
  [ AvWidget("Button", addr, kwargs) EXCEPT
      !.properties = update(kwargs, [text |-> text]),
      !.command = command ]

AvLabel(addr, text, kwargs) ==
  [ AvWidget("Label", addr, kwargs) EXCEPT
      !.properties = update(kwargs, [text |-> text]) ]

AvFrame(addr, kwargs) ==
  [ AvWidget("Border", addr, kwargs) EXCEPT
      !.properties = update(kwargs, [child |-> "None"]) ]

Handles == 1..Len(heap)

Live == {w \in Handles : ~heap[w].freed}

(* id(self) is the object's address: no two objects alive at the same time *)
(* share one, and the address of a collected object can be given again.    *)
FreeAddrs == (1..MaxAddr) \ {heap[w].addr : w \in Live}

(* ------------------------------ inputs -------------------------------- *)

Texts == {"a", "Hello"}

Commands == {"None", "ok", "raises"}

(* The keyword arguments the calls are tried with. *)
KwargsSet == { [width |-> 20], [text |-> "Hello"] }

LayoutKwargs == { EmptyDict, [width |-> 10] }

(* grid(row, column, kwargs...) and place(x, y, kwargs...): the defaults,  *)
(* and a call that gives one coordinate and an option.                     *)
GridArgs == { <<0, 0, EmptyDict>>, <<1, 0, [width |-> 10]>> }

Events == {"<Button-1>"}

Handlers == {"h1"}

(* ------------------------------ results ------------------------------- *)

(* What the last call did: the operation, the widget it was called on, its *)
(* keyword arguments or message, the value returned (a widget handle, 0    *)
(* for None), the exception that left it and the lines it printed.         *)
Outcome(op, target, kw, msg, ret, raised, printed) ==
  [ op |-> op, target |-> target, kw |-> kw, msg |-> msg,
    ret |-> ret, raised |-> raised, printed |-> printed ]

Returned(op, target, kw, ret) == Outcome(op, target, kw, <<>>, ret, "None", <<>>)

(* ------------------------------ AvWidget ------------------------------ *)

(* The classes that define update_widget: hasattr(parent, 'update_widget') *)
UpdateWidgetClasses == {}

hasattr_update_widget(parent) == parent.kind \in UpdateWidgetClasses

(* `if self.parent`: None is false, an AvWindow or AvFrame object is true. *)
Truthy(parent) == parent.kind # "None"

(* A mutation: a key that is already there keeps its value (setdefault). *)
configure_properties_keep(properties, kwargs) == update(kwargs, properties)

(* self.properties.update(kwargs) *)
configure_properties(properties, kwargs) == update(properties, kwargs)

(* The re-render requests after configure on a widget with this parent.    *)
configure_rerenders(rr, w, parent) ==
  IF Truthy(parent) /\ hasattr_update_widget(parent) THEN Append(rr, w) ELSE rr

configure_call(op, w, kwargs) ==
  /\ heap' = [heap EXCEPT ![w].properties = configure_properties(@, kwargs)]
  /\ rerenders' = configure_rerenders(rerenders, w, heap[w].parent)
  /\ out' = Returned(op, w, kwargs, IF op = "configure" THEN w ELSE 0)

configure(w, kwargs) ==
  /\ w \in Live
  /\ configure_call("configure", w, kwargs)
  /\ UNCHANGED <<widgets, threads, cfglog>>
  /\ Tick

(* AvButton.set_text / AvLabel.set_text: self.configure(text=text)         *)
set_text(w, text) ==
  /\ w \in Live
  /\ heap[w].widget_type \in {"Button", "Label"}
  /\ configure_call("set_text", w, [text |-> text])
  /\ UNCHANGED <<widgets, threads, cfglog>>
  /\ Tick

(* A mutation: the mapping is replaced instead of merged into. *)
pack_properties_replace(properties, kwargs) == update([layout |-> "pack"], kwargs)

(* self.properties.update({'layout': 'pack', ...kwargs}) *)
pack_properties(properties, kwargs) ==
  update(properties, update([layout |-> "pack"], kwargs))

grid_properties(properties, row, column, kwargs) ==
  update(properties,
         update([layout |-> "grid", row |-> row, column |-> column], kwargs))

place_properties(properties, x, y, kwargs) ==
  update(properties, update([layout |-> "place", x |-> x, y |-> y], kwargs))

pack(w, kwargs) ==
  /\ w \in Live
  /\ heap' = [heap EXCEPT ![w].properties = pack_properties(@, kwargs)]
  /\ out' = Returned("pack", w, kwargs, w)
  /\ UNCHANGED <<widgets, rerenders, threads, cfglog>>
  /\ Tick

grid(w, row, column, kwargs) ==
  /\ w \in Live
  /\ heap' = [heap EXCEPT ![w].properties = grid_properties(@, row, column, kwargs)]
  /\ out' = Returned("grid", w, update([row |-> row, column |-> column], kwargs), w)
  /\ UNCHANGED <<widgets, rerenders, threads, cfglog>>
  /\ Tick

place(w, x, y, kwargs) ==
  /\ w \in Live
  /\ heap' = [heap EXCEPT ![w].properties = place_properties(@, x, y, kwargs)]
  /\ out' = Returned("place", w, update([x |-> x, y |-> y], kwargs), w)
  /\ UNCHANGED <<widgets, rerenders, threads, cfglog>>
  /\ Tick

bind(w, event, handler) ==
  /\ w \in Live
  /\ heap' = [heap EXCEPT ![w].bindings = update(@, [e \in {event} |-> handler])]
  /\ out' = Returned("bind", w, EmptyDict, w)
  /\ UNCHANGED <<widgets, rerenders, threads, cfglog>>
  /\ Tick

(* invoke_command: the callback runs inside try/except Exception, whose    *)
(* handler prints "<command error>: e".  The result is the exception that  *)
(* leaves the call and the lines printed.                                  *)
invoke_command(command) ==
  IF command # "None" /\ command = "raises"
    THEN [raised |-> "None", printed |-> <<"command error">>]
    ELSE [raised |-> "None", printed |-> <<>>]

(* AvButton.click *)
click(w) ==
  /\ w \in Live
  /\ heap[w].widget_type = "Button"
  /\ LET r == invoke_command(heap[w].command)
     IN  out' = Outcome("click", w, EmptyDict, <<>>, 0, r.raised, r.printed)
  /\ UNCHANGED <<heap, widgets, rerenders, threads, cfglog>>
  /\ Tick

(* ------------------------------ AvWindow ------------------------------ *)

(* AvWindow.add(widget): widget.parent = self; self.widgets.append(widget) *)
add_parent(hp, w) == [hp EXCEPT ![w].parent = TheWindow]

add_widgets(ws, w) == Append(ws, w)

(* A constructor call: the new object gets the next handle and an address  *)
(* no live object has.                                                     *)
NewHandle == Len(heap) + 1

CanConstruct == Len(heap) < MaxWidgets /\ FreeAddrs # {}

(* btn = AvButton(text, command, **kwargs), not added to any window        *)
New_AvButton(addr, text, command, kwargs) ==
  /\ CanConstruct
  /\ addr \in FreeAddrs
  /\ heap' = Append(heap, AvButton(addr, text, command, kwargs))
  /\ out' = Returned("AvButton", NewHandle, kwargs, NewHandle)
  /\ UNCHANGED <<widgets, rerenders, threads, cfglog>>
  /\ Tick

(* AvWindow.Button(text, command, **kwargs)                                *)
Button(addr, text, command, kwargs) ==
  /\ CanConstruct
  /\ addr \in FreeAddrs
  /\ Len(widgets) < MaxList
  /\ heap' = add_parent(Append(heap, AvButton(addr, text, command, kwargs)), NewHandle)
  /\ widgets' = add_widgets(widgets, NewHandle)
  /\ out' = Returned("Button", NewHandle, kwargs, NewHandle)
  /\ UNCHANGED <<rerenders, threads, cfglog>>
  /\ Tick

(* AvWindow.Label(text, **kwargs)                                          *)
Label(addr, text, kwargs) ==
  /\ CanConstruct
  /\ addr \in FreeAddrs
  /\ Len(widgets) < MaxList
  /\ heap' = add_parent(Append(heap, AvLabel(addr, text, kwargs)), NewHandle)
  /\ widgets' = add_widgets(widgets, NewHandle)
  /\ out' = Returned("Label", NewHandle, kwargs, NewHandle)
  /\ UNCHANGED <<rerenders, threads, cfglog>>
  /\ Tick

(* AvWindow.Frame(kwargs...)                                                *)
Frame(addr, kwargs) ==
  /\ CanConstruct
  /\ addr \in FreeAddrs
  /\ Len(widgets) < MaxList
  /\ heap' = add_parent(Append(heap, AvFrame(addr, kwargs)), NewHandle)
  /\ widgets' = add_widgets(widgets, NewHandle)
  /\ out' = Returned("Frame", NewHandle, kwargs, NewHandle)
  /\ UNCHANGED <<rerenders, threads, cfglog>>
  /\ Tick

add(w) ==
  /\ w \in Live
  /\ Len(widgets) < MaxList
  /\ heap' = add_parent(heap, w)
  /\ widgets' = add_widgets(widgets, w)
  /\ out' = Returned("add", w, EmptyDict, w)
  /\ UNCHANGED <<rerenders, threads, cfglog>>
  /\ Tick

(* AvFrame.add_child(widget): the parent and the child list are written,   *)
(* then widget.to_dict() is looked up; no class defines to_dict (the       *)
(* conversion is AvWindow.widget_to_dict), so AttributeError leaves the    *)
(* call before properties['child'] is assigned.                            *)
add_child(f, w) ==
  /\ f \in Live /\ w \in Live
  /\ heap[f].widget_type = "Border"
  /\ Len(heap[f].children) < MaxList
  /\ heap' = [heap EXCEPT ![w].parent = FrameRef(f),
                          ![f].children = Append(heap[f].children, w)]
  /\ out' = Outcome("add_child", f, EmptyDict, <<>>, 0, "AttributeError", <<>>)
  /\ UNCHANGED <<widgets, rerenders, threads, cfglog>>
  /\ Tick

(* The objects something still refers to: the window's list, the child     *)
(* lists of frames and the parent references of live widgets.              *)
Referenced ==
  {widgets[i] : i \in 1..Len(widgets)}
    \cup UNION {{heap[f].children[i] : i \in 1..Len(heap[f].children)} : f \in Live}
    \cup {heap[w].parent.ref : w \in Live}

(* The script drops its last reference to an object nothing else refers to *)
(* and the object is collected.                                            *)
collect(w) ==
  /\ w \in Live
  /\ w \notin Referenced
  /\ heap' = [heap EXCEPT ![w].freed = TRUE]
  /\ out' = Returned("collect", w, EmptyDict, 0)
  /\ UNCHANGED <<widgets, rerenders, threads, cfglog>>
  /\ Tick

(* ------------------------- handle_pipe_message ------------------------ *)

Min(S) == CHOOSE n \in S : \A m \in S : n <= m

(* `for widget in self.widgets: if widget.id == widget_id: ... break`:     *)
(* the first widget of the list with that id, 0 when there is none.        *)
find_widget(widget_id) ==
  LET hits == {i \in 1..Len(widgets) : Str(heap[widgets[i]].id) = widget_id}
  IN  IF hits = {} THEN 0 ELSE widgets[Min(hits)]

(* A mutation: a line without event field counts as a click. *)
pipe_message_target_default_click(message) ==
  LET parts == split(strip(message), SEP)
      w == find_widget(parts[1])
      event_type == IF Len(parts) >= 2 THEN parts[2] ELSE Str("click")
  IN  IF w # 0 /\ event_type = Str("click") /\ heap[w].command # "None" THEN w ELSE 0

(* The widget whose command handle_pipe_message(message) starts on a new   *)
(* thread, 0 when it starts none.                                          *)
pipe_message_target(message) ==
  LET parts == split(strip(message), SEP)
  IN  IF Len(parts) >= 2
        THEN LET w == find_widget(parts[1])
             IN  IF w # 0 /\ parts[2] = Str("click") /\ heap[w].command # "None"
                   THEN w
                   ELSE 0
        ELSE 0

(* A mutation: a set_text line is applied to the widget it names. *)
pipe_message_heap_set_text(message) ==
  LET parts == split(strip(message), SEP)
      w == IF Len(parts) >= 3 THEN find_widget(parts[1]) ELSE 0
  IN  IF w # 0 /\ parts[2] = Str("set_text") /\ Len(parts[3]) = 1
        THEN [heap EXCEPT ![w].properties = update(@, [text |-> parts[3][1]])]
        ELSE heap

(* The widgets after handle_pipe_message(message): it assigns to none.     *)
pipe_message_heap(message) == heap

(* A mutation: the command is called in place, by the thread that          *)
(* dispatches, which goes on only when the command is over.                *)
start_thread_in_place(ths, w) ==
  Append(ths, [widget |-> w, target |-> heap[w].command,
               state |-> IF heap[w].command = "raises" THEN "uncaught" ELSE "returned"])

(* threading.Thread(target=widget.command).start()                         *)
start_thread(ths, w) ==
  Append(ths, [widget |-> w, target |-> heap[w].command, state |-> "started"])

handle_pipe_message_call(message) ==
  LET w == pipe_message_target(message)
  IN  /\ w # 0 => Len(threads) < MaxThreads
      /\ threads' = IF w # 0 THEN start_thread(threads, w) ELSE threads
      /\ heap' = pipe_message_heap(message)

(* The lines tried: events for a widget id, with and without terminator,   *)
(* a host-bound command, lines of fewer than two fields, two lines in one  *)
(* message.                                                                *)
ClickLine(id) == <<id, SEP, "click", NL>>

SetTextLine(id, text) == <<id, SEP, "set_text", SEP, text>>

PipeMessages(id) ==
  { ClickLine(id), SetTextLine(id, "Hello"), <<id>>, <<id, NL>>,
    ClickLine(id) \o ClickLine(id) }

WindowIds == {heap[widgets[i]].id : i \in 1..Len(widgets)}

(* The empty message, and a click for an id no widget has. *)
OtherMessages == { <<>>, ClickLine("W9") }

handle_pipe_message(message) ==
  /\ handle_pipe_message_call(message)
  /\ out' = Outcome("handle_pipe_message", pipe_message_target(message), EmptyDict,
                    message, 0, "None", <<>>)
  /\ UNCHANGED <<widgets, rerenders, cfglog>>
  /\ Tick

(* A callback thread runs its target: Thread.run calls it with nothing     *)
(* around it, so an exception of the callback ends the thread uncaught.    *)
thread_result(target) == IF target = "raises" THEN "uncaught" ELSE "returned"

thread_run_call(i) ==
  /\ i \in 1..Len(threads)
  /\ threads[i].state = "started"
  /\ threads' = [threads EXCEPT ![i].state = thread_result(threads[i].target)]

thread_run(i) ==
  /\ thread_run_call(i)
  /\ out' = Returned("thread_run", threads[i].widget, EmptyDict, 0)
  /\ UNCHANGED <<heap, widgets, rerenders, cfglog>>
  /\ Tick

(* ------------------------------ facade -------------------------------- *)

NoCall == Returned("init", 0, EmptyDict, 0)

NoLog == [init |-> EmptyDict, calls |-> <<>>]

(* The presentation application when nothing drives it. *)
NotDriven ==
  [ com |-> "ok", foreground |-> "powerpnt.exe", slideshow |-> TRUE,
    ReadOnly |-> FALSE, PointerType |-> 1, ink |-> FALSE, SlideIndex |-> 1,
    keys |-> "", ProtectedView |-> TRUE ]

(* AvWindow.__init__, and no child process yet *)
InitRelay ==
  /\ running = FALSE
  /\ process = "None"
  /\ pcMain = "script"
  /\ pcReader = "none"
  /\ attempts = 0
  /\ pipe_handle = "unset"
  /\ pipeIn = <<>>
  /\ pipeOut = <<>>
  /\ childCmds = <<>>
  /\ clicks = <<>>
  /\ sent = <<>>

Init ==
  /\ heap = <<>>
  /\ widgets = <<>>
  /\ rerenders = <<>>
  /\ threads = <<>>
  /\ out = NoCall
  /\ cfglog = NoLog
  /\ steps = 0
  /\ InitRelay
  /\ ppt = NotDriven

Next ==
  \/ \E a \in FreeAddrs : New_AvButton(a, "a", "ok", EmptyDict)
  \/ \E a \in FreeAddrs, c \in Commands : Button(a, "a", c, EmptyDict)
  \/ \E a \in FreeAddrs : Label(a, "a", EmptyDict)
  \/ \E w \in Handles : add(w)
  \/ \E w \in Handles : collect(w)
  \/ \E w \in Handles : set_text(w, "Hello")
  \/ \E w \in Handles : click(w)
  \/ \E id \in WindowIds : \E m \in PipeMessages(id) : handle_pipe_message(m)
  \/ \E m \in OtherMessages : handle_pipe_message(m)
  \/ \E i \in 1..Len(threads) : thread_run(i)

Spec == Init /\ [][Next]_vars

(* ------------------------------ layout -------------------------------- *)

(* The layout calls, configure and bind on the widgets of a window.        *)
NextLayout ==
  \/ \E a \in FreeAddrs : Button(a, "a", "ok", EmptyDict)
  \/ \E a \in FreeAddrs : Frame(a, EmptyDict)
  \/ \E a \in FreeAddrs : New_AvButton(a, "a", "ok", [width |-> 10])
  \/ \E f \in Handles, w \in Handles : add_child(f, w)
  \/ \E w \in Handles, kw \in KwargsSet : configure(w, kw)
  \/ \E w \in Handles, kw \in LayoutKwargs : pack(w, kw)
  \/ \E w \in Handles, a \in GridArgs : grid(w, a[1], a[2], a[3])
  \/ \E w \in Handles, a \in GridArgs : place(w, a[1], a[2], a[3])
  \/ \E w \in Handles, e \in Events, h \in Handlers : bind(w, e, h)

SpecLayout == Init /\ [][NextLayout]_vars

(* ------------------------------ configure ----------------------------- *)

(* The mappings configure is called with in a logged run: every choice of  *)
(* text and width, either key given or not.                                *)
ConfigKwargs ==
  { EmptyDict } \cup { [text |-> t] : t \in Texts } \cup { [width |-> n] : n \in {10, 20} }
    \cup { [text |-> t, width |-> n] : t \in Texts, n \in {10, 20} }

(* One widget, as its constructor leaves it. *)
InitConfigure ==
  /\ \E t \in Texts, kw \in {EmptyDict, [width |-> 10], [height |-> 5]} :
       /\ heap = <<AvButton(1, t, "None", kw)>>
       /\ cfglog = [init |-> heap[1].properties, calls |-> <<>>]
  /\ widgets = <<>>
  /\ rerenders = <<>>
  /\ threads = <<>>
  /\ out = NoCall
  /\ steps = 0
  /\ InitRelay
  /\ ppt = NotDriven

configure_logged(kwargs) ==
  /\ Len(cfglog.calls) < MaxCalls
  /\ configure_call("configure", 1, kwargs)
  /\ cfglog' = [cfglog EXCEPT !.calls = Append(@, kwargs)]
  /\ UNCHANGED <<widgets, threads, steps, ppt, hostVars, pipeVars>>

NextConfigure == \E kw \in ConfigKwargs : configure_logged(kw)

SpecConfigure == InitConfigure /\ [][NextConfigure]_vars

(* ------------------------------ pipe relay ---------------------------- *)

(* range(10): the CreateFile attempts of pipe_client_thread *)
ConnectAttempts == 10

(* mainloop with running False calls compile_and_run.  Up to the start of   *)
(* the reader thread: the child is spawned (Popen), which makes a new pipe, *)
(* and a new pipe_client_thread is started; or a step before that fails    *)
(* (no runtime directory, build error, no executable) and compile_and_run  *)
(* returns False, on which mainloop prints and returns.  Nothing resets    *)
(* self.pipe_handle: a handle opened to an earlier child stays in place.   *)
(* A script can call mainloop again once it has returned; the build that   *)
(* precedes Popen is taken to outlast the previous reader thread.          *)
mainloop_start(ok) ==
  /\ pcMain \in {"script", "returned"}
  /\ ~running
  /\ IF ok
       THEN /\ pcReader \in {"none", "ended"}
            /\ process' = "alive"
            /\ pcReader' = "wait"
            /\ attempts' = 0
            /\ pipe_handle' = IF pipe_handle = "unset" THEN "unset" ELSE "previous"
            /\ pipeIn' = <<>>
            /\ pipeOut' = <<>>
            /\ pcMain' = "compile"
       ELSE /\ pcMain' = "returned"
            /\ UNCHANGED <<process, pcReader, attempts, pipe_handle, pipeIn, pipeOut>>
  /\ UNCHANGED <<running, facadeVars, ppt, childCmds, clicks, sent>>

(* compile_and_run, after the thread is started: self.running = True       *)
compile_and_run_finish ==
  /\ pcMain = "compile"
  /\ running' = TRUE
  /\ pcMain' = "poll"
  /\ UNCHANGED <<process, pcReader, attempts, pipe_handle, facadeVars, ppt, pipeVars>>

(* self.process.poll() is not None *)
poll_exited(p) == p \in {"exited", "terminated"}

(* `while self.running: if self.process and self.process.poll() is not     *)
(* None: break`, else time.sleep(0.1) begins.                              *)
(* A mutation: `is None` for `is not None`. *)
poll_next_negated(r, p) ==
  IF ~r \/ (p # "None" /\ ~poll_exited(p)) THEN "finally" ELSE "sleep"

(* Where one pass of the polling loop leaves the main thread. *)
poll_next(r, p) ==
  IF ~r \/ (p # "None" /\ poll_exited(p)) THEN "finally" ELSE "sleep"

mainloop_poll ==
  /\ pcMain = "poll"
  /\ pcMain' = poll_next(running, process)
  /\ UNCHANGED <<running, process, pcReader, attempts, pipe_handle, facadeVars, ppt, pipeVars>>

(* time.sleep(0.1) returns *)
mainloop_sleep ==
  /\ pcMain = "sleep"
  /\ pcMain' = "poll"
  /\ UNCHANGED <<running, process, pcReader, attempts, pipe_handle, facadeVars, ppt, pipeVars>>

(* Ctrl+C.  Inside the try block: except KeyboardInterrupt, then finally.   *)
(* In compile_and_run, after the thread is started and before it returns:  *)
(* no try is around it and the KeyboardInterrupt leaves mainloop.          *)
keyboard_interrupt ==
  /\ pcMain \in {"compile", "poll", "sleep"}
  /\ pcMain' = IF pcMain = "compile" THEN "raised" ELSE "finally"
  /\ UNCHANGED <<running, process, pcReader, attempts, pipe_handle, facadeVars, ppt, pipeVars>>

(* A mutation: destroy without the terminate call. *)
destroy_process_no_terminate(p) == p

(* destroy(): running = False; terminate() when the child is still alive   *)
destroy_process(p) == IF p # "None" /\ ~poll_exited(p) THEN "terminated" ELSE p

mainloop_finally ==
  /\ pcMain = "finally"
  /\ running' = FALSE
  /\ process' = destroy_process(process)
  /\ pcMain' = "returned"
  /\ UNCHANGED <<pcReader, attempts, pipe_handle, facadeVars, ppt, pipeVars>>

(* pipe_client_thread: time.sleep(2) returns *)
reader_wait ==
  /\ pcReader = "wait"
  /\ pcReader' = "connect"
  /\ UNCHANGED <<running, process, pcMain, attempts, pipe_handle, facadeVars, ppt, pipeVars>>

(* What str(e) of a failed CreateFile can hold: the text the code retries  *)
(* on, or any other.                                                       *)
ConnectErrors == {"No process", "other"}

(* What the reader thread prints for a pass of the connect loop. *)
connect_printed(connected, error) ==
  IF connected THEN <<"connected">>
  ELSE IF error = "No process" THEN <<>> ELSE <<"pipe connect failed">>

(* A mutation: every failure is retried. *)
connect_failed_next_always_retry(error) == "retry"

(* Where a failed pass leaves the reader: `time.sleep(0.5); continue` when *)
(* "No process" is in str(e), else print and break.                        *)
connect_failed_next(error) == IF error = "No process" THEN "retry" ELSE "ended"

(* One pass of `for _ in range(10)`: CreateFile succeeds when the child's  *)
(* pipe server is there, else it raises; on "No process" the thread sleeps *)
(* and tries again, on another error it prints and leaves the loop; after  *)
(* the last pass the loop ends and the thread with it.  Once connected the *)
(* loop is never entered again (break follows the read loop) and its count *)
(* is dropped.                                                             *)
reader_connect(connected, error) ==
  /\ pcReader = "connect"
  /\ IF attempts >= ConnectAttempts
       THEN /\ pcReader' = "ended"
            /\ UNCHANGED <<attempts, pipe_handle, out>>
       ELSE /\ IF connected
                 THEN /\ process = "alive"
                      /\ pipe_handle' = "current"
                      /\ pcReader' = "check"
                      /\ attempts' = 0
                 ELSE /\ pcReader' = connect_failed_next(error)
                      /\ attempts' = attempts + 1
                      /\ UNCHANGED pipe_handle
            /\ out' = Outcome("CreateFile", 0, EmptyDict,
                              IF connected THEN <<>> ELSE Str(error),
                              IF connected THEN 1 ELSE 0, "None",
                              connect_printed(connected, error))
  /\ UNCHANGED <<heap, widgets, rerenders, threads, cfglog, steps, ppt>>
  /\ UNCHANGED <<running, process, pcMain, pipeVars>>

(* time.sleep(0.5); continue *)
reader_retry ==
  /\ pcReader = "retry"
  /\ pcReader' = "connect"
  /\ UNCHANGED <<running, process, pcMain, attempts, pipe_handle, facadeVars, ppt, pipeVars>>

(* A mutation: a reader that finds running False goes back to connecting. *)
check_next_reconnect(r) == IF r THEN "read" ELSE "connect"

(* `while self.running`: into ReadFile, or out of the loop, on to `break`  *)
(* and the end of the thread.                                              *)
check_next(r) == IF r THEN "read" ELSE "ended"

reader_check ==
  /\ pcReader = "check"
  /\ pcReader' = check_next(running)
  /\ UNCHANGED <<running, process, pcMain, attempts, pipe_handle, facadeVars, ppt, pipeVars>>

(* ReadFile(handle, 4096) on the byte-mode pipe returns what the pipe      *)
(* holds: every line written since the last read, as one text.             *)
read_file(buffer) == buffer

(* ReadFile returns data and the whole of it is handed to                  *)
(* handle_pipe_message as one message; or the pipe is empty and broken     *)
(* (the child is gone), ReadFile raises and `except: break` ends the loop. *)
reader_read ==
  /\ pcReader = "read"
  /\ IF pipeIn # <<>>
       THEN /\ handle_pipe_message_call(read_file(pipeIn))
            /\ pipeIn' = <<>>
            /\ pcReader' = "check"
       ELSE /\ process # "alive"
            /\ pcReader' = "ended"
            /\ UNCHANGED <<heap, threads, pipeIn>>
  /\ UNCHANGED <<widgets, rerenders, out, cfglog, steps, ppt>>
  /\ UNCHANGED <<running, process, pcMain, attempts, pipe_handle>>
  /\ UNCHANGED <<pipeOut, childCmds, clicks, sent>>

(* A callback thread of the relay runs. *)
callback_run(i) ==
  /\ thread_run_call(i)
  /\ UNCHANGED <<heap, widgets, rerenders, out, cfglog, steps, ppt, hostVars, pipeVars>>

(* f"{widget_id}|{command}|{data}": no line terminator is added *)
pipe_command(widget_id, command, data) == <<widget_id, SEP, command, SEP>> \o data

(* A mutation: WriteFile with no try around it. *)
send_result_uncaught(handle, p) ==
  IF handle = "unset"
    THEN [wrote |-> FALSE, raised |-> "None", printed |-> <<>>]
    ELSE IF handle = "current" /\ p = "alive"
      THEN [wrote |-> TRUE, raised |-> "None", printed |-> <<>>]
      ELSE [wrote |-> FALSE, raised |-> "error", printed |-> <<>>]

(* `if hasattr(self, 'pipe_handle'): try: WriteFile(...) except Exception  *)
(* as e: print(...)`.  WriteFile succeeds on the handle of the pipe of a   *)
(* child that is alive; on any other handle it raises.                     *)
send_result(handle, p) ==
  IF handle = "unset"
    THEN [wrote |-> FALSE, raised |-> "None", printed |-> <<>>]
    ELSE IF handle = "current" /\ p = "alive"
      THEN [wrote |-> TRUE, raised |-> "None", printed |-> <<>>]
      ELSE [wrote |-> FALSE, raised |-> "None", printed |-> <<"send failed">>]

(* send_pipe_command(widget_id, command, data) *)
send_pipe_command(widget_id, command, data) ==
  /\ Len(sent) < MaxSends
  /\ IF send_result(pipe_handle, process).wrote
       THEN /\ pipeOut' = pipeOut \o pipe_command(widget_id, command, data)
            /\ sent' = Append(sent, <<Str(widget_id), Str(command), data>>)
       ELSE UNCHANGED <<pipeOut, sent>>
  /\ out' = Outcome("send_pipe_command", 0, EmptyDict,
                    pipe_command(widget_id, command, data), 0,
                    send_result(pipe_handle, process).raised,
                    send_result(pipe_handle, process).printed)
  /\ UNCHANGED <<heap, widgets, rerenders, threads, cfglog, steps, ppt>>
  /\ UNCHANGED <<hostVars, pipeIn, childCmds, clicks>>

(* The data a command is sent with: a text, and one that ends a line. *)
Datas == { <<"Hello">>, <<"Hello", NL>> }

(* ------------------------------ the child ----------------------------- *)

(* pipeServer.IsConnected: a client has opened the pipe *)
IsConnected == pipe_handle = "current"

(* The Click handler of a button rendered with a "command" entry:          *)
(* SendEvent(id, "click") writes the line "id|click" and flushes.  The     *)
(* terminator WriteLine adds is white space to strip().                    *)
child_click(w) ==
  /\ process = "alive"
  /\ IsConnected
  /\ heap[w].widget_type = "Button" /\ heap[w].command # "None"
  /\ Len(clicks) < MaxClicks
  /\ pipeIn' = pipeIn \o ClickLine(heap[w].id)
  /\ clicks' = Append(clicks, w)
  /\ UNCHANGED <<facadeVars, ppt, hostVars, pipeOut, childCmds, sent>>

(* The user closes the window of the child, or the child dies. *)
child_exit ==
  /\ process = "alive"
  /\ process' = "exited"
  /\ UNCHANGED <<running, pcMain, pcReader, attempts, pipe_handle, facadeVars, ppt, pipeVars>>

HasLine(buffer) == \E i \in 1..Len(buffer) : buffer[i] = NL

LineEnd(buffer) == Min({i \in 1..Len(buffer) : buffer[i] = NL})

(* HandleCommand's arguments for a line: none for fewer than two fields    *)
child_commands(line) ==
  LET parts == split(line, SEP)
  IN  IF Len(parts) >= 2
        THEN << <<parts[1], parts[2], IF Len(parts) > 2 THEN parts[3] ELSE <<>> >> >>
        ELSE <<>>

(* PipeServerThread: reader.ReadLine() returns the text up to the next     *)
(* line terminator, once there is one.                                     *)
child_read_line ==
  /\ process = "alive"
  /\ IsConnected
  /\ HasLine(pipeOut)
  /\ childCmds' = childCmds \o child_commands(SubSeq(pipeOut, 1, LineEnd(pipeOut) - 1))
  /\ pipeOut' = SubSeq(pipeOut, LineEnd(pipeOut) + 1, Len(pipeOut))
  /\ UNCHANGED <<facadeVars, ppt, hostVars, pipeIn, clicks, sent>>

(* ------------------------------ relay --------------------------------- *)

(* A window with two buttons, as window.Button(...) twice leaves it: one   *)
(* whose command returns and one whose command raises.                     *)
RelayHeap ==
  add_parent(
    Append(add_parent(<<AvButton(1, "a", "ok", EmptyDict)>>, 1),
           AvButton(2, "a", "raises", EmptyDict)),
    2)

InitRelaySpec ==
  /\ heap = RelayHeap
  /\ widgets = add_widgets(add_widgets(<<>>, 1), 2)
  /\ rerenders = <<>>
  /\ threads = <<>>
  /\ out = NoCall
  /\ cfglog = NoLog
  /\ steps = 0
  /\ InitRelay
  /\ ppt = NotDriven

MainStep ==
  \/ compile_and_run_finish
  \/ mainloop_poll
  \/ mainloop_sleep
  \/ mainloop_finally

(* The one call of mainloop of a script that calls it once. *)
mainloop_once(ok) == pcMain = "script" /\ mainloop_start(ok)

NextRelay ==
  \/ \E ok \in BOOLEAN : mainloop_once(ok)
  \/ compile_and_run_finish
  \/ mainloop_poll
  \/ mainloop_sleep
  \/ keyboard_interrupt
  \/ mainloop_finally
  \/ reader_wait
  \/ \E c \in BOOLEAN, e \in ConnectErrors : reader_connect(c, e)
  \/ reader_retry
  \/ reader_check
  \/ reader_read
  \/ \E i \in 1..Len(threads) : callback_run(i)
  \/ \E w \in Handles : child_click(w)
  \/ child_exit
  \/ child_read_line
  \/ \E w \in Handles, d \in Datas : send_pipe_command(heap[w].id, "set_text", d)

SpecRelay == InitRelaySpec /\ [][NextRelay]_vars

(* A script that calls mainloop again whenever it has returned: the host   *)
(* side of the relay over any number of runs.                              *)
NextRestart ==
  \/ \E ok \in BOOLEAN : mainloop_start(ok)
  \/ compile_and_run_finish
  \/ mainloop_poll
  \/ mainloop_sleep
  \/ keyboard_interrupt
  \/ mainloop_finally
  \/ reader_wait
  \/ \E c \in BOOLEAN, e \in ConnectErrors : reader_connect(c, e)
  \/ reader_retry
  \/ reader_check
  \/ reader_read
  \/ \E w \in Handles : child_click(w)
  \/ child_exit
  \/ \E w \in Handles, d \in Datas : send_pipe_command(heap[w].id, "set_text", d)

SpecRestart == InitRelaySpec /\ [][NextRestart]_vars

(* The main thread is a thread of the host process: the scheduler runs it  *)
(* whenever it has a step to take.  Ctrl+C and the child are not forced.   *)
FairRelay == SpecRelay /\ WF_vars(MainStep)

(* ----------------------- the automation driver ------------------------ *)
(* src/pyipa/ipaui.py.  The presentation application is outside the        *)
(* program: ppt holds what the driver reads and writes of it.  com is      *)
(* "down" when calls to the application fail (it has gone, or the COM      *)
(* call is refused); foreground is the name of the process that owns the   *)
(* foreground window; slideshow tells whether SlideShowWindows holds a     *)
(* window.  The module obtains PPTObj when it is imported, which needs     *)
(* ensure_powerpoint_process to pass then; the functions run later, when   *)
(* the application may be in any state.                                    *)

MaxSlides == 2

(* The call leaves the widget facade and the relay alone. *)
DriverCall(o) ==
  /\ out' = o
  /\ UNCHANGED <<heap, widgets, rerenders, threads, cfglog, steps, hostVars, pipeVars>>

(* Python's True and False as results *)
Bool(b) == IF b THEN 1 ELSE 0

(* ensure_powerpoint_process(): what it raises, "None" when it returns.    *)
(* The look-up of the foreground process is a chain of calls out of the    *)
(* program (avtk.py itself defines no get_process_name); it is taken to    *)
(* yield the process name unless calls fail.                               *)
ensure_powerpoint_process ==
  IF ppt.com = "down" THEN "com_error"
  ELSE IF ppt.foreground # "powerpnt.exe" THEN "Exception"
  ELSE IF ~ppt.slideshow THEN "Exception"
  ELSE "None"

(* PPTObj.ActivePresentation, PPTObj.SlideShowWindows(1): what the access  *)
(* raises                                                                  *)
ActivePresentation == IF ppt.com = "down" THEN "com_error" ELSE "None"

SlideShowWindows == IF ppt.com = "down" \/ ~ppt.slideshow THEN "com_error" ELSE "None"

(* try: return presentation.ReadOnly; except Exception: return True *)
checkIfPPTLockedOrReadOnly ==
  /\ DriverCall(Returned("checkIfPPTLockedOrReadOnly", 0, EmptyDict,
                         IF ActivePresentation # "None" THEN Bool(TRUE)
                         ELSE Bool(ppt.ReadOnly)))
  /\ UNCHANGED ppt

(* Unlock(): two guarded steps.  The assignment to ReadOnly is accepted by *)
(* the application or refused (settable); the registry command succeeds or *)
(* not (registry_ok).  Each failure is printed.                            *)
Unlock(settable, registry_ok) ==
  LET first_fails == ActivePresentation # "None" \/ (ppt.ReadOnly /\ ~settable)
  IN  /\ ppt' = [ppt EXCEPT !.ReadOnly = IF first_fails THEN @ ELSE FALSE,
                            !.ProtectedView = IF registry_ok THEN FALSE ELSE @]
      /\ DriverCall(Outcome("Unlock", 0, EmptyDict, <<>>, 0, "None",
                            (IF first_fails THEN <<"cannot clear read-only">> ELSE <<>>)
                              \o (IF registry_ok THEN <<>>
                                  ELSE <<"cannot close protected view">>)))

(* SendKeysToPPT(keys) and its wrappers: ensure_powerpoint_process(), then *)
(* AppActivate and SendKeys, with no try around any of it.                 *)
SendKeysToPPT_call(op, keys) ==
  /\ ppt' = IF ensure_powerpoint_process = "None" THEN [ppt EXCEPT !.keys = keys] ELSE ppt
  /\ DriverCall(Outcome(op, 0, EmptyDict, Str(keys), 0, ensure_powerpoint_process, <<>>))

SendKeysToPPT(keys) == SendKeysToPPT_call("SendKeysToPPT", keys)

SendPageDownToPPT == SendKeysToPPT_call("SendPageDownToPPT", "{PGDN}")

SendPageUpToPPT == SendKeysToPPT_call("SendPageUpToPPT", "{PGUP}")

SendEscToPPT == SendKeysToPPT_call("SendEscToPPT", "{ESC}")

SendViewAllSlidesToPPT == SendKeysToPPT_call("SendViewAllSlidesToPPT", "G")

(* A mutation: .get(status) without the default. *)
PointerType_no_default(status) == get([arrow |-> 1, pen |-> 2, eraser |-> 3], status, 0)

(* {"arrow": 1, "pen": 2, "eraser": 3}.get(status, 1) *)
PointerType(status) == get([arrow |-> 1, pen |-> 2, eraser |-> 3], status, 1)

(* PPTObj.SlideShowWindows(1).View.PointerType = ...: no try around it *)
ToogleArrowStatusToPPT(status) ==
  /\ ppt' = IF SlideShowWindows = "None"
              THEN [ppt EXCEPT !.PointerType = PointerType(status)]
              ELSE ppt
  /\ DriverCall(Outcome("ToogleArrowStatusToPPT", 0, EmptyDict, Str(status), 0,
                        SlideShowWindows, <<>>))

(* PPTObj.SlideShowWindows(1).View.EraseAllInk() *)
ClearAllInkInPPT ==
  /\ ppt' = IF SlideShowWindows = "None" THEN [ppt EXCEPT !.ink = FALSE] ELSE ppt
  /\ DriverCall(Outcome("ClearAllInkInPPT", 0, EmptyDict, <<>>, 0, SlideShowWindows, <<>>))

(* return PPTObj.SlideShowWindows(1).View.Slide.SlideIndex *)
GetCurrentSlideIndex ==
  /\ DriverCall(Outcome("GetCurrentSlideIndex", 0, EmptyDict, <<>>,
                        IF SlideShowWindows = "None" THEN ppt.SlideIndex ELSE 0,
                        SlideShowWindows, <<>>))
  /\ UNCHANGED ppt

(* The statuses and keys tried *)
Statuses == {"arrow", "pen", "eraser", "laser", ""}

Keys == {"{HOME}"}

(* The user and the application between two calls: another window comes to *)
(* the front, the slide show ends or starts, the application stops         *)
(* answering or answers again, the presentation is opened read-only, ink   *)
(* is drawn, the slide changes.                                            *)
application_changes ==
  /\ ppt' \in ( { [ppt EXCEPT !.com = IF @ = "ok" THEN "down" ELSE "ok"],
                   [ppt EXCEPT !.foreground =
                      IF @ = "powerpnt.exe" THEN "explorer.exe" ELSE "powerpnt.exe"],
                   [ppt EXCEPT !.slideshow = ~@],
                   [ppt EXCEPT !.ReadOnly = ~@],
                   [ppt EXCEPT !.ink = TRUE] }
                 \cup { [ppt EXCEPT !.SlideIndex = n] : n \in 1..MaxSlides } ) \ {ppt}
  /\ UNCHANGED <<facadeVars, hostVars, pipeVars>>

(* After `import ipaui`: get_powerpoint_app() has returned, so PowerPoint  *)
(* was in front and showing slides. *)
InitDriver ==
  /\ heap = <<>>
  /\ widgets = <<>>
  /\ rerenders = <<>>
  /\ threads = <<>>
  /\ out = NoCall
  /\ cfglog = NoLog
  /\ steps = 0
  /\ InitRelay
  /\ \E ro \in BOOLEAN, pt \in 1..3 :
       ppt = [NotDriven EXCEPT !.ReadOnly = ro, !.PointerType = pt]

NextDriver ==
  \/ checkIfPPTLockedOrReadOnly
  \/ \E settable \in BOOLEAN, registry_ok \in BOOLEAN : Unlock(settable, registry_ok)
  \/ \E k \in Keys : SendKeysToPPT(k)
  \/ SendPageDownToPPT
  \/ SendPageUpToPPT
  \/ SendEscToPPT
  \/ SendViewAllSlidesToPPT
  \/ \E st \in Statuses : ToogleArrowStatusToPPT(st)
  \/ ClearAllInkInPPT
  \/ GetCurrentSlideIndex
  \/ application_changes

SpecDriver == InitDriver /\ [][NextDriver]_vars

(* ------------------------------ claims -------------------------------- *)

Max(S) == CHOOSE n \in S : \A m \in S : n >= m

(* The calls of the log that wrote key k. *)
Writers(k) == {i \in 1..Len(cfglog.calls) : k \in DOMAIN cfglog.calls[i]}

LoggedKeys == (DOMAIN cfglog.init) \cup UNION {DOMAIN cfglog.calls[i] : i \in 1..Len(cfglog.calls)}

(* C1: after any sequence of configure calls the mapping holds, for every  *)
(* key, the value of the last call that wrote it, and the construction-    *)
(* time value for a key no call wrote; and two calls with disjoint key     *)
(* sets give the same mapping in either order.                             *)
C1_LastWriteWins ==
  LET p == heap[1].properties
  IN  /\ DOMAIN p = LoggedKeys
      /\ \A k \in LoggedKeys :
           p[k] = IF Writers(k) = {} THEN cfglog.init[k]
                                     ELSE cfglog.calls[Max(Writers(k))][k]
      /\ \A a \in ConfigKwargs, b \in ConfigKwargs :
           (DOMAIN a) \cap (DOMAIN b) = {} =>
             configure_properties(configure_properties(p, a), b)
               = configure_properties(configure_properties(p, b), a)

(* Three calls were made; one key was written twice with different values  *)
(* and one key of the constructor was never written.                       *)
C1_Witness ==
  /\ Len(cfglog.calls) = 3
  /\ \E k \in LoggedKeys : \E i \in Writers(k), j \in Writers(k) :
       i < j /\ cfglog.calls[i][k] # cfglog.calls[j][k]
  /\ \E k \in DOMAIN cfglog.init : Writers(k) = {}

(* C2, as claimed: after handle_pipe_message of "W1|set_text|Hello", W1 the *)
(* id of a widget of the window, that widget's text is "Hello".            *)
C2_SetTextLineSetsText ==
  \A i \in 1..Len(widgets) :
    (out.op = "handle_pipe_message"
       /\ out.msg = SetTextLine(heap[widgets[i]].id, "Hello"))
      => get(heap[widgets[i]].properties, "text", "") = "Hello"

(* C2, amended: handle_pipe_message of "W1|set_text|Hello" leaves the      *)
(* property mapping of the widget W1, its text included, as it was.        *)
C2_SetTextLineIgnored ==
  [][\A i \in 1..Len(widgets) :
       (out'.op = "handle_pipe_message"
          /\ out'.msg = SetTextLine(heap[widgets[i]].id, "Hello"))
         => heap'[widgets[i]].properties = heap[widgets[i]].properties]_vars

(* The line was dispatched for a widget of the window whose text is "a".   *)
C2_Witness ==
  \E i \in 1..Len(widgets) :
    /\ out.op = "handle_pipe_message"
    /\ out.msg = SetTextLine(heap[widgets[i]].id, "Hello")
    /\ get(heap[widgets[i]].properties, "text", "") = "a"

(* The number of '|'-separated fields of a message. *)
Fields(message) == Cardinality({i \in 1..Len(message) : message[i] = SEP}) + 1

(* C3: handle_pipe_message of a message with fewer than two fields raises  *)
(* nothing, starts no thread and changes no widget.                        *)
C3_MalformedLineIgnored ==
  [][(out'.op = "handle_pipe_message" /\ Fields(out'.msg) < 2)
       => /\ out'.raised = "None"
          /\ threads' = threads
          /\ heap' = heap
          /\ widgets' = widgets]_vars

(* A one-field line naming a button of the window that has a command was   *)
(* dispatched.                                                             *)
C3_Witness ==
  /\ out.op = "handle_pipe_message"
  /\ Fields(out.msg) < 2
  /\ \E i \in 1..Len(widgets) :
       /\ strip(out.msg) = Str(heap[widgets[i]].id)
       /\ heap[widgets[i]].command # "None"

(* C4: while mainloop is polling, once the child process has exited the    *)
(* next poll of the loop leaves the loop (no further sleep is begun), and  *)
(* mainloop then runs destroy and returns.                                 *)
C4_ExitObservedAtNextPoll ==
  /\ [][(pcMain = "poll" /\ process = "exited" /\ pcMain' # pcMain)
          => pcMain' = "finally"]_vars
  /\ ((pcMain \in {"poll", "sleep"} /\ process = "exited") ~> (pcMain = "returned"))

(* The child has exited by itself, the loop has seen it and mainloop has   *)
(* returned through destroy.                                               *)
C4_Witness ==
  pcMain = "returned" /\ process = "exited" /\ ~running /\ pcReader # "none"

(* The callback threads started for widget w, and the click lines the      *)
(* child wrote for it.                                                     *)
Started(w) == Cardinality({i \in 1..Len(threads) : threads[i].widget = w})

Written(w) == Cardinality({i \in 1..Len(clicks) : clicks[i] = w})

(* C5: once the host has read everything the child wrote, each click line  *)
(* written for a widget with a command has started that command exactly    *)
(* once, however the lines fell into reads.                                *)
C5_EachClickLineDispatchedOnce ==
  pipeIn = <<>> => \A w \in Handles : Started(w) = Written(w)

(* C6: a configure call merges the fields and, on a widget attached to a   *)
(* parent, makes one re-render request for it; none on a widget without    *)
(* parent.                                                                 *)
C6_ConfigureRequestsRerender ==
  [][out'.op = "configure"
       => LET w == out'.target
          IN  /\ heap'[w].properties = update(heap[w].properties, out'.kw)
              /\ rerenders' = IF heap[w].parent.kind # "None"
                                THEN Append(rerenders, w)
                                ELSE rerenders]_vars

(* C7: when the child has read every line there is, it has received the    *)
(* commands the host has sent, one per call and in call order.             *)
C7_OneLinePerCommand ==
  (process = "alive" /\ ~HasLine(pipeOut))
    => /\ Len(childCmds) = Len(sent)
       /\ \A i \in 1..Len(sent) :
            /\ childCmds[i][1] = sent[i][1]
            /\ childCmds[i][2] = sent[i][2]
            /\ childCmds[i][3] = rstrip(sent[i][3])

(* C8: no exception of a callback leaves the place that ran it: click      *)
(* returns normally and no callback thread ends with it uncaught.          *)
C8_CallbackExceptionsCaught ==
  /\ out.op = "click" => out.raised = "None"
  /\ \A i \in 1..Len(threads) : threads[i].state # "uncaught"

(* C9, as claimed: the entries of the window's widget list have pairwise   *)
(* distinct identifiers.                                                   *)
C9_ListIdsDistinct ==
  \A i \in 1..Len(widgets), j \in 1..Len(widgets) :
    i # j => heap[widgets[i]].id # heap[widgets[j]].id

(* C9, amended: two different widgets of the window's widget list have     *)
(* different identifiers.                                                  *)
C9_DistinctWidgetsDistinctIds ==
  \A i \in 1..Len(widgets), j \in 1..Len(widgets) :
    widgets[i] # widgets[j] => heap[widgets[i]].id # heap[widgets[j]].id

(* The list holds two different widgets of one type. *)
C9_Witness ==
  \E i \in 1..Len(widgets), j \in 1..Len(widgets) :
    /\ widgets[i] # widgets[j]
    /\ heap[widgets[i]].widget_type = heap[widgets[j]].widget_type

(* C10: pack, grid and place change nothing but the property mapping of    *)
(* the widget, and of it only the layout key and the options of the call;  *)
(* nothing is sent, no re-render is requested, the widget is returned.     *)
C10_LayoutCallsOnlyAnnotate ==
  [][out'.op \in {"pack", "grid", "place"}
       => LET w == out'.target
              before == heap[w].properties
              after == heap'[w].properties
              written == {"layout"} \cup DOMAIN out'.kw
          IN  /\ heap' = [heap EXCEPT ![w].properties = after]
              /\ DOMAIN after = (DOMAIN before) \cup written
              /\ \A k \in (DOMAIN before) \ written : after[k] = before[k]
              /\ after["layout"] = out'.op
              /\ \A k \in DOMAIN out'.kw : after[k] = out'.kw[k]
              /\ widgets' = widgets
              /\ rerenders' = rerenders
              /\ pipeOut' = pipeOut
              /\ sent' = sent
              /\ out'.raised = "None"
              /\ out'.ret = w]_vars

(* grid was called on a widget that has a parent, a command, a binding and *)
(* properties of its own.                                                  *)
C10_Witness ==
  /\ out.op = "grid"
  /\ LET w == heap[out.target]
     IN  /\ w.parent.kind # "None"
         /\ w.command # "None"
         /\ w.bindings # EmptyDict
         /\ "text" \in DOMAIN w.properties
         /\ "width" \in DOMAIN w.properties

(* What C11 says the pointer type is after the call. *)
C11_Expected(status) ==
  CASE status = "arrow" -> 1
    [] status = "pen" -> 2
    [] status = "eraser" -> 3
    [] OTHER -> 1

(* C11: a call of ToogleArrowStatusToPPT(status) that reaches the slide    *)
(* show leaves the pointer type 1 for "arrow", 2 for "pen", 3 for "eraser" *)
(* and 1 for every other status.                                           *)
C11_PointerModeMapping ==
  [][ (out'.op = "ToogleArrowStatusToPPT" /\ out'.raised = "None" /\ out' # out)
        => \E st \in Statuses :
             out'.msg = Str(st) /\ ppt'.PointerType = C11_Expected(st) ]_vars

(* A status outside the mapping has been applied. *)
C11_Witness ==
  /\ out.op = "ToogleArrowStatusToPPT"
  /\ out.raised = "None"
  /\ out.msg = Str("laser")
  /\ ppt.PointerType = 1

(* A pass of the connect loop in which CreateFile has failed. *)
C12_FailedPass ==
  pcReader = "connect" /\ attempts < ConnectAttempts /\ pcReader' \in {"retry", "ended"}

(* C12, as claimed: whatever the failure of a connection attempt, the      *)
(* reader thread prints nothing and goes on to the delay before the next   *)
(* attempt.                                                                *)
C12_RetriesWhateverTheFailure ==
  [][ C12_FailedPass => (pcReader' = "retry" /\ out'.printed = <<>>) ]_vars

(* C12, amended: a failure whose text holds "No process" is followed by    *)
(* the delay and another attempt, at most 10 attempts being made, and the  *)
(* thread ends without a word after the tenth; any other failure is        *)
(* printed and ends the thread at once.  Either way nothing is raised, and *)
(* the main thread, the running flag, the child and the pipe handle are    *)
(* left as they were.                                                      *)
C12_RetriesOnNoProcessOnly ==
  [][ (pcReader = "connect" /\ pcReader' \in {"retry", "ended"}) =>
        /\ attempts' <= ConnectAttempts
        /\ C12_FailedPass =>
             /\ out'.op = "CreateFile" /\ out'.raised = "None"
             /\ IF out'.msg = Str("No process")
                  THEN pcReader' = "retry" /\ out'.printed = <<>>
                  ELSE pcReader' = "ended" /\ out'.printed = <<"pipe connect failed">>
        /\ attempts = ConnectAttempts => (pcReader' = "ended" /\ out' = out)
        /\ UNCHANGED <<running, pcMain, process, pipe_handle>> ]_vars

(* Ten attempts have failed, the reader thread has ended and mainloop is   *)
(* polling with no connection.                                             *)
C12_Witness ==
  /\ pcReader = "ended"
  /\ attempts = ConnectAttempts
  /\ out.op = "CreateFile" /\ out.printed = <<>>
  /\ pipe_handle = "unset"
  /\ running /\ pcMain \in {"poll", "sleep"}

(* The connection state of the window, read off the host: Closed once the  *)
(* reader thread has ended or destroy has run (mainloop has returned from  *)
(* a run that spawned a child), Connected while the reader thread is in    *)
(* its read loop, Connecting while it waits or tries to open the pipe,     *)
(* Disconnected before any reader thread.                                  *)
C13_State ==
  IF pcReader = "ended" \/ (pcMain = "returned" /\ process # "None") THEN "Closed"
  ELSE IF pcReader \in {"check", "read"} THEN "Connected"
  ELSE IF pcReader \in {"wait", "connect", "retry"} THEN "Connecting"
  ELSE "Disconnected"

C13_Rank(st) ==
  CASE st = "Disconnected" -> 0
    [] st = "Connecting" -> 1
    [] st = "Connected" -> 2
    [] st = "Closed" -> 3

(* C13, as claimed: whatever is done to the window, mainloop called again  *)
(* included, its connection state only moves forward through              *)
(* Disconnected, Connecting, Connected, Closed.                            *)
C13_OnlyForward ==
  [][ C13_Rank(C13_State') >= C13_Rank(C13_State) ]_vars

(* C13, amended: the connection state moves backward only in the step in   *)
(* which mainloop, called again after it has returned, spawns a new child  *)
(* and starts a new reader thread.                                         *)
C13_ForwardWithinARun ==
  [][ C13_Rank(C13_State') >= C13_Rank(C13_State)
        \/ (pcMain = "returned" /\ pcMain' = "compile" /\ pcReader' = "wait") ]_vars

(* mainloop has been called again on a window whose connection was made    *)
(* and closed: the handle of that connection is still in place and the new *)
(* reader thread is about to open the new child's pipe.                    *)
C13_Witness ==
  /\ pipe_handle = "previous"
  /\ C13_State = "Connecting"
  /\ pcReader = "connect"
  /\ process = "alive"

(* C14: whenever mainloop returns, running is False and the child is not   *)
(* left alive: a child that was alive when the polling loop was left has   *)
(* been sent terminate.                                                    *)
C14_DestroyRanOnReturn ==
  [][ pcMain' = "returned" =>
        /\ ~running'
        /\ process' # "alive"
        /\ (process = "alive" /\ pcMain = "finally") => process' = "terminated" ]_vars

(* mainloop has returned after an interrupt that found the child alive. *)
C14_Witness ==
  /\ pcMain = "returned"
  /\ process = "terminated"
  /\ ~running

(* C15: the reader thread does not wait for the callbacks it dispatches.   *)
(* When a read has dispatched a click, the reader is back at the head of   *)
(* its loop while that callback has not finished, and the callbacks        *)
(* dispatched before are as they were, finished or not.                    *)
C15_ReaderDoesNotWait ==
  [][ (pcReader = "read" /\ pcReader' = "check" /\ Len(threads') > Len(threads)) =>
        /\ Len(threads') = Len(threads) + 1
        /\ threads'[Len(threads')].state = "started"
        /\ \A i \in 1..Len(threads) : threads'[i] = threads[i] ]_vars

(* Two runs of the same widget's command, dispatched by two reads, are     *)
(* both unfinished, and the reader is ready for the next event.            *)
C15_Witness ==
  /\ Len(threads) = 2
  /\ threads[1].widget = threads[2].widget
  /\ threads[1].state = "started"
  /\ threads[2].state = "started"
  /\ pcReader = "check"
  /\ running

(* A step in which send_pipe_command is called. *)
C16_Sends == out'.op = "send_pipe_command" /\ (out' # out \/ sent' # sent)

(* C16: send_pipe_command never raises.  With no pipe handle yet it does   *)
(* nothing; when the write fails, the handle being one of a closed pipe,   *)
(* the failure is printed; in every case the widgets, the widget list and  *)
(* the running flag are left as they were.                                 *)
C16_SendNeverRaises ==
  [][ C16_Sends =>
        /\ out'.raised = "None"
        /\ pipe_handle = "unset" =>
             (out'.printed = <<>> /\ pipeOut' = pipeOut /\ sent' = sent)
        /\ (pipe_handle # "unset" /\ (process # "alive" \/ pipe_handle = "previous")) =>
             (out'.printed = <<"send failed">> /\ pipeOut' = pipeOut /\ sent' = sent)
        /\ heap' = heap /\ widgets' = widgets /\ running' = running ]_vars

(* A command was sent on the handle of a pipe whose child is gone, and     *)
(* the failure was printed.                                                *)
C16_Witness ==
  /\ out.op = "send_pipe_command"
  /\ out.printed = <<"send failed">>
  /\ out.raised = "None"
  /\ pipe_handle = "current"
  /\ process = "terminated"

(* The automation driver functions *)
C17_DriverOps ==
  { "checkIfPPTLockedOrReadOnly", "Unlock", "SendKeysToPPT", "SendPageDownToPPT",
    "SendPageUpToPPT", "SendEscToPPT", "SendViewAllSlidesToPPT",
    "ToogleArrowStatusToPPT", "ClearAllInkInPPT", "GetCurrentSlideIndex" }

(* C17: no automation driver function raises to its caller, whatever the   *)
(* external application does: a failure comes back as a value or is        *)
(* printed.                                                                *)
C17_DriverNeverRaises ==
  [][ out'.op \in C17_DriverOps => out'.raised = "None" ]_vars

(* C18: the reader thread tests the running flag only once                 *)
(* compile_and_run, which started it, has set the flag: never while the    *)
(* main thread is still between the start of the thread and the            *)
(* assignment.                                                             *)
C18_ReaderTestsAfterRunningSet ==
  [][ (pcReader = "check" /\ pcReader' # "check") => pcMain # "compile" ]_vars

(* C19: once destroy has set running to False, no callback thread is       *)
(* started: a click line that came in while the reader thread was in       *)
(* ReadFile is not dispatched after that.                                  *)
C19_NoDispatchAfterDestroy ==
  [][ (pcMain = "returned" /\ ~running) => Len(threads') <= Len(threads) ]_vars

(* C20: AvFrame.add_child(w) completes without error, after which w is the *)
(* last child of the frame, w.parent is the frame and properties['child']  *)
(* holds a description of w.                                               *)
C20_AddChildCompletes ==
  [][ (out'.op = "add_child" /\ steps' # steps) =>
        LET f == out'.target
            n == Len(heap'[f].children)
        IN  /\ out'.raised = "None"
            /\ n = Len(heap[f].children) + 1
            /\ heap'[heap'[f].children[n]].parent = FrameRef(f)
            /\ heap'[f].properties["child"] # "None" ]_vars

====
